---------------------------- MODULE Spec2Model ----------------------------
(***************************************************************************)
(* A model of the Telegram sales check-in bot (src/main.py): the module's  *)
(* start-up statements, the three Telegram handlers and the Flask webhook  *)
(* route.  Text is a sequence of one-character strings, so that split,     *)
(* strip, isdigit, int() and the "," format are computed as Python         *)
(* computes them.  The character "sup2" stands for U+00B2 (superscript     *)
(* two), a character for which str.isdigit() is true and int() raises.     *)
(***************************************************************************)
EXTENDS Integers, Sequences, FiniteSets, TLC

VARIABLES
    pc,                       \* where the module's top-level code stands
    TOKEN,                    \* main.py:64
    WEBHOOK_URL,              \* main.py:65
    worksheet,                \* main.py:46 / main.py:52
    authorized_sales_ids_str, \* main.py:55
    authorized_sales_ids,     \* main.py:57 / main.py:59
    sheet,                    \* the rows of the remote worksheet tab, in order
    appendedBy,               \* history: the sender of the update behind each row
    handled,                  \* number of POST /telegram requests served; the clock
    last,                     \* the last request: its update and everything it caused
    appendFailedBefore,       \* history: some earlier append_row call raised
    checkedIn,                \* history: the users who have sent /checkin
    observed                  \* history: (input, outcome) pairs of free-text updates

vars == << pc, TOKEN, WEBHOOK_URL, worksheet, authorized_sales_ids_str,
           authorized_sales_ids, sheet, appendedBy, handled, last,
           appendFailedBefore, checkedIn, observed >>

----------------------------------------------------------------------------
(* Bounds of the model *)

\* number of webhook requests served in Spec
MaxUpdates == 2
\* length of the message texts enumerated in SpecMsg
MaxLen == 5
\* length of the AUTHORIZED_SALES strings enumerated in SpecAuth
MaxAuthLen == 4
\* number of webhook requests served in SpecHist
MaxHist == 3

----------------------------------------------------------------------------
(* Python values *)

None == "None"
Unbound == "unbound"          \* a global name not assigned yet
Absent == "absent"            \* os.environ holds no such variable

\* os.environ.get(name, default)
EnvGet(value, default) == IF value = Absent THEN default ELSE value

\* os.environ.get(name, default) for a variable whose text the program reads:
\* the environment either holds a string for it or does not hold it
EnvSet(str) == [ present |-> TRUE, value |-> str ]
EnvUnset == [ present |-> FALSE, value |-> << >> ]
EnvGetStr(e, default) == IF e.present THEN e.value ELSE default

\* bool(x) of an environment value: None and the empty string are false
Truthy(x) == x # None /\ x # ""

----------------------------------------------------------------------------
(* Python string operations on sequences of characters *)

Whitespace == {" "}
DecimalDigit == {"0", "1", "2", "3", "4", "5", "6", "7", "8", "9"}
\* the characters c with c.isdigit(): the decimal digits and, among others, U+00B2
DigitChar == DecimalDigit \cup {"sup2"}

DigitVal(c) ==
    CASE c = "0" -> 0 [] c = "1" -> 1 [] c = "2" -> 2 [] c = "3" -> 3
      [] c = "4" -> 4 [] c = "5" -> 5 [] c = "6" -> 6 [] c = "7" -> 7
      [] c = "8" -> 8 [] c = "9" -> 9

DigitChr(d) ==
    CASE d = 0 -> "0" [] d = 1 -> "1" [] d = 2 -> "2" [] d = 3 -> "3"
      [] d = 4 -> "4" [] d = 5 -> "5" [] d = 6 -> "6" [] d = 7 -> "7"
      [] d = 8 -> "8" [] d = 9 -> "9"

RECURSIVE lstrip(_)
lstrip(s) ==
    IF s # << >> /\ Head(s) \in Whitespace THEN lstrip(Tail(s)) ELSE s

RECURSIVE rstrip(_)
rstrip(s) ==
    IF s # << >> /\ s[Len(s)] \in Whitespace
    THEN rstrip(SubSeq(s, 1, Len(s) - 1))
    ELSE s

\* str.strip()
strip(s) == rstrip(lstrip(s))

\* str.split(','): the parts between the commas; "" gives [""]
RECURSIVE split(_)
split(s) ==
    IF \E i \in 1..Len(s) : s[i] = ","
    THEN LET i == CHOOSE k \in 1..Len(s) :
                     s[k] = "," /\ \A j \in 1..(k - 1) : s[j] # ","
         IN  << SubSeq(s, 1, i - 1) >> \o split(SubSeq(s, i + 1, Len(s)))
    ELSE << s >>

\* str.isdigit(): non-empty and every character a digit character
isdigit(s) == s # << >> /\ \A i \in 1..Len(s) : s[i] \in DigitChar

\* the value of a string of decimal digits and underscores
RECURSIVE DigitsValue(_)
DigitsValue(s) ==
    IF s = << >> THEN 0
    ELSE LET init == SubSeq(s, 1, Len(s) - 1)
             c == s[Len(s)]
         IN  IF c = "_" THEN DigitsValue(init)
             ELSE 10 * DigitsValue(init) + DigitVal(c)

\* the digits of an int() literal: decimal digits, single "_" between digits
IntBody(b) ==
    /\ b # << >>
    /\ \A i \in 1..Len(b) : b[i] \in DecimalDigit \cup {"_"}
    /\ b[1] # "_" /\ b[Len(b)] # "_"
    /\ \A i \in 1..(Len(b) - 1) : ~(b[i] = "_" /\ b[i + 1] = "_")

\* int(s): [raised |-> TRUE] for ValueError, else the value.  int() strips
\* whitespace, takes one optional sign, then the digits.
int(s) ==
    LET t == strip(s)
        signed == t # << >> /\ Head(t) \in {"+", "-"}
        body == IF signed THEN Tail(t) ELSE t
    IN  IF IntBody(body)
        THEN [raised |-> FALSE,
              value |-> IF signed /\ Head(t) = "-"
                        THEN 0 - DigitsValue(body) ELSE DigitsValue(body)]
        ELSE [raised |-> TRUE, value |-> 0]

\* the decimal digits of a natural number
RECURSIVE NatStr(_)
NatStr(n) ==
    IF n < 10 THEN << DigitChr(n) >>
    ELSE NatStr(n \div 10) \o << DigitChr(n % 10) >>

\* format(n, ",") for n >= 0: groups of three digits from the right
RECURSIVE GroupThousands(_)
GroupThousands(n) ==
    IF n < 1000 THEN NatStr(n)
    ELSE LET r == n % 1000
         IN  GroupThousands(n \div 1000)
               \o << ",", DigitChr(r \div 100), DigitChr((r \div 10) % 10),
                     DigitChr(r % 10) >>

\* Variant of FormatThousands: f"{n}", the amount without separators
FormatPlain(n) ==
    IF n < 0 THEN << "-" >> \o NatStr(0 - n) ELSE NatStr(n)

\* f"{n:,}"
FormatThousands(n) ==
    IF n < 0 THEN << "-" >> \o GroupThousands(0 - n) ELSE GroupThousands(n)

----------------------------------------------------------------------------
(* Start-up: the module's top-level statements, main.py:27-85 and 149-165 *)

\* what the credential loader finds in the environment and at the remote
\* service: the key variable, whether the key dict is a service-account
\* key, GOOGLE_SHEET_ID, and whether the spreadsheet and the tab open
CredentialEnvs ==
    [ key : {Absent, "", "malformed", "json"},
      keyfile : {"ok", "rejected"},
      sheet_id : {Absent, "", "id"},
      spreadsheet : {"opens", "raises"},
      tab : {"opens", "raises"} ]

\* the try block of main.py:27-47: whether any statement in it raises
CredentialsRaise(e) ==
    \/ ~Truthy(EnvGet(e.key, None))          \* line 29-30
    \/ e.key = "malformed"                   \* line 33, json.loads
    \/ e.keyfile = "rejected"                \* line 34-37
    \/ ~Truthy(EnvGet(e.sheet_id, None))     \* line 42-43
    \/ e.spreadsheet = "raises"              \* line 45
    \/ e.tab = "raises"                      \* line 46

\* main.py:27-52: any failure is caught and leaves worksheet = None
LoadCredentials(e) ==
    /\ pc = "creds"
    /\ worksheet' = IF CredentialsRaise(e) THEN None ELSE "ws"
    /\ pc' = "auth"
    /\ UNCHANGED << TOKEN, WEBHOOK_URL, authorized_sales_ids_str,
                    authorized_sales_ids, sheet, appendedBy, handled, last,
                    appendFailedBefore, checkedIn, observed >>

\* the tokens of the set comprehension of main.py:57 that pass the filter
KeptTokens(str) ==
    LET toks == split(str)
    IN  { strip(toks[i]) : i \in { k \in 1..Len(toks) : isdigit(strip(toks[k])) } }

\* main.py:57: {int(uid.strip()) for uid in str.split(',') if
\* uid.strip().isdigit()}; int() raising ends the comprehension
ParseAuthorized(str) ==
    [ raised |-> \E t \in KeptTokens(str) : int(t).raised,
      ids |-> { int(t).value : t \in { k \in KeptTokens(str) : ~int(k).raised } } ]

\* main.py:55-59
LoadAuthorized(envValue) ==
    /\ pc = "auth"
    /\ LET str == EnvGetStr(envValue, << >>)
           parsed == ParseAuthorized(str)
       IN  /\ authorized_sales_ids_str' = str
           /\ IF str # << >>
              THEN IF parsed.raised
                   THEN pc' = "crashed" /\ authorized_sales_ids' = authorized_sales_ids
                   ELSE pc' = "config" /\ authorized_sales_ids' = parsed.ids
              ELSE pc' = "config" /\ authorized_sales_ids' = {}
    /\ UNCHANGED << TOKEN, WEBHOOK_URL, worksheet, sheet, appendedBy, handled,
                    last, appendFailedBefore, checkedIn, observed >>

\* main.py:64-65: os.environ.get gives None for a variable that is absent
ReadBotConfig(token, url) ==
    /\ pc = "config"
    /\ TOKEN' = EnvGet(token, None)
    /\ WEBHOOK_URL' = EnvGet(url, None)
    /\ pc' = "token"
    /\ UNCHANGED << worksheet, authorized_sales_ids_str, authorized_sales_ids,
                    sheet, appendedBy, handled, last, appendFailedBefore,
                    checkedIn, observed >>

\* Variant of TokenMissing: "TOKEN is None", which lets an empty token pass
TokenMissingIsNone(t) == t = None

\* "not TOKEN", main.py:67
TokenMissing(t) == ~Truthy(t)

\* main.py:67-70
CheckToken ==
    /\ pc = "token"
    /\ pc' = IF TokenMissing(TOKEN) THEN "exited" ELSE "webhook"
    /\ UNCHANGED << TOKEN, WEBHOOK_URL, worksheet, authorized_sales_ids_str,
                    authorized_sales_ids, sheet, appendedBy, handled, last,
                    appendFailedBefore, checkedIn, observed >>

\* main.py:72-75
CheckWebhookUrl ==
    /\ pc = "webhook"
    /\ pc' = IF ~Truthy(WEBHOOK_URL) THEN "exited" ELSE "build"
    /\ UNCHANGED << TOKEN, WEBHOOK_URL, worksheet, authorized_sales_ids_str,
                    authorized_sales_ids, sheet, appendedBy, handled, last,
                    appendFailedBefore, checkedIn, observed >>

\* main.py:78-84: Application.builder()...build() and
\* asyncio.run(application.initialize()); either may raise, nothing catches it
BuildApplication(raises) ==
    /\ pc = "build"
    /\ pc' = IF raises THEN "crashed" ELSE "routes"
    /\ UNCHANGED << TOKEN, WEBHOOK_URL, worksheet, authorized_sales_ids_str,
                    authorized_sales_ids, sheet, appendedBy, handled, last,
                    appendFailedBefore, checkedIn, observed >>

\* main.py:88-165: the handlers and the route are defined and registered;
\* the import is over and the server accepts requests
RegisterHandlers ==
    /\ pc = "routes"
    /\ pc' = "serving"
    /\ UNCHANGED << TOKEN, WEBHOOK_URL, worksheet, authorized_sales_ids_str,
                    authorized_sales_ids, sheet, appendedBy, handled, last,
                    appendFailedBefore, checkedIn, observed >>

----------------------------------------------------------------------------
(* The Telegram handlers, main.py:88-145 *)

\* An update: kind is what the dispatcher's filters see ("start" and
\* "checkin" are the two commands, "text" is non-command text, "other" is
\* anything no handler takes, "malformed" is a body that does not
\* deserialize); shape tells which field of the Update carries the message:
\* for "message" update.message and update.effective_user are set, for
\* "edited_message" update.message is None, for "channel_post"
\* update.message and update.effective_user are both None.
\*
\* What the outside does while one request is served: f.append tells whether
\* worksheet.append_row raises, f.reply[i] whether the i-th reply_text call
\* of the handler raises, f.dispatch whether application.process_update
\* raises to its caller.

NoReply == << >>

Reply(kind, name, amount, detail, raises) ==
    [ kind |-> kind, name |-> name, amount |-> amount, detail |-> detail,
      sent |-> ~raises ]

\* what a handler run did: the reply_text calls in order, the append_row
\* calls, the rows written, and the exception that left the handler
Outcome(replies, appendCalls, appendRaised, rows, escaped) ==
    [ replies |-> replies, appendCalls |-> appendCalls,
      appendRaised |-> appendRaised, rows |-> rows, escaped |-> escaped ]

\* an attribute read on None, outside any try block
AttributeError == Outcome(NoReply, 0, FALSE, << >>, "AttributeError")

\* one reply_text call outside any try block: main.py:91, 93, 100, 102, 108
ReplyUnguarded(kind, f) ==
    Outcome(<< Reply(kind, << >>, << >>, "", f.reply[1]) >>, 0, FALSE, << >>,
            IF f.reply[1] THEN "TelegramError" ELSE "none")

\* main.py:88-94
start_command(u, f) ==
    IF u.shape = "channel_post" THEN AttributeError            \* line 89
    ELSE IF u.shape # "message" THEN AttributeError            \* line 91, 93
    ELSE IF u.user \in authorized_sales_ids
         THEN ReplyUnguarded("greeting", f)
         ELSE ReplyUnguarded("refusal_start", f)

\* main.py:96-103
checkin_command(u, f) ==
    IF u.shape = "channel_post" THEN AttributeError            \* line 97
    ELSE IF u.shape # "message" THEN AttributeError            \* line 100, 102
    ELSE IF u.user \in authorized_sales_ids
         THEN ReplyUnguarded("checkin_prompt", f)
         ELSE ReplyUnguarded("refusal_checkin", f)

\* the except clause of main.py:143-145: one reply_text call carrying the
\* failure's description; if that call raises, the exception leaves the handler
ExceptClause(before, appendCalls, appendRaised, rows, detail, raises) ==
    Outcome(before \o << Reply("processing_error", << >>, << >>, detail, raises) >>,
            appendCalls, appendRaised, rows,
            IF raises THEN "TelegramError" ELSE "none")

\* a reply_text call inside the try block of main.py:113-141, as the first
\* reply of the handler: if it raises, the except clause replies in its turn
ReplyInTry(r, appendCalls, rows, f) ==
    IF f.reply[1]
    THEN ExceptClause(<< [r EXCEPT !.sent = FALSE] >>, appendCalls, FALSE, rows,
                      "TelegramError", f.reply[2])
    ELSE Outcome(<< [r EXCEPT !.sent = TRUE] >>, appendCalls, FALSE, rows, "none")

\* strftime of datetime.now(wib_tz), main.py:130-131: the clock's reading
Timestamp(now) == [ wib |-> now ]

\* Variant of RecordSales without "if worksheet:": append_row is called on
\* None, which raises into the except clause
RecordSalesNoHandleCheck(name, amount, now, f) ==
    IF worksheet = None \/ f.append
    THEN ExceptClause(NoReply, 1, TRUE, << >>,
                      IF worksheet = None THEN "AttributeError" ELSE "AppendError",
                      f.reply[1])
    ELSE ReplyInTry(Reply("confirmation", name, FormatThousands(amount), "", FALSE),
                    1, << << Timestamp(now), name, amount >> >>, f)

\* Variant of RecordSales with append_row outside the try block: its
\* exception leaves the handler
RecordSalesUncaught(name, amount, now, f) ==
    IF worksheet # None
    THEN IF f.append
         THEN Outcome(NoReply, 1, TRUE, << >>, "AppendError")
         ELSE ReplyInTry(Reply("confirmation", name, FormatThousands(amount), "", FALSE),
                         1, << << Timestamp(now), name, amount >> >>, f)
    ELSE ReplyInTry(Reply("connectivity_error", << >>, << >>, "", FALSE), 0, << >>, f)

\* main.py:134-141, reached with a parsed name and amount
RecordSales(name, amount, now, f) ==
    IF worksheet # None
    THEN IF f.append
         THEN ExceptClause(NoReply, 1, TRUE, << >>, "AppendError", f.reply[1])
         ELSE ReplyInTry(Reply("confirmation", name, FormatThousands(amount), "", FALSE),
                         1, << << Timestamp(now), name, amount >> >>, f)
    ELSE ReplyInTry(Reply("connectivity_error", << >>, << >>, "", FALSE), 0, << >>, f)

\* Variant of ParseAndRecord that takes the first and the last field of a
\* text with more than one comma
ParseAndRecordLastField(u, now, f) ==
    IF u.shape # "message" THEN AttributeError
    ELSE LET parts == split(u.text)
         IN  IF Len(parts) < 2
             THEN ReplyInTry(Reply("format_error", << >>, << >>, "", FALSE), 0, << >>, f)
             ELSE LET sales_name == strip(parts[1])
                      sales_amount == int(strip(parts[Len(parts)]))
                  IN  IF sales_amount.raised
                      THEN ReplyInTry(Reply("amount_error", << >>, << >>, "", FALSE),
                                      0, << >>, f)
                      ELSE RecordSales(sales_name, sales_amount.value, now, f)

\* Variant of ParseAndRecord that looks at the worksheet handle before it
\* parses the amount
ParseAndRecordHandleFirst(u, now, f) ==
    IF u.shape # "message" THEN AttributeError
    ELSE LET parts == split(u.text)
         IN  IF Len(parts) # 2
             THEN ReplyInTry(Reply("format_error", << >>, << >>, "", FALSE), 0, << >>, f)
             ELSE IF worksheet = None
             THEN ReplyInTry(Reply("connectivity_error", << >>, << >>, "", FALSE),
                             0, << >>, f)
             ELSE LET sales_name == strip(parts[1])
                      sales_amount == int(strip(parts[2]))
                  IN  IF sales_amount.raised
                      THEN ReplyInTry(Reply("amount_error", << >>, << >>, "", FALSE),
                                      0, << >>, f)
                      ELSE RecordSales(sales_name, sales_amount.value, now, f)

\* main.py:112-145, reached by an authorized sender
ParseAndRecord(u, now, f) ==
    IF u.shape # "message" THEN AttributeError                 \* line 112
    ELSE LET parts == split(u.text)
         IN  IF Len(parts) # 2
             THEN ReplyInTry(Reply("format_error", << >>, << >>, "", FALSE), 0, << >>, f)
             ELSE LET sales_name == strip(parts[1])
                      sales_amount_str == strip(parts[2])
                      sales_amount == int(sales_amount_str)
                  IN  IF sales_amount.raised
                      THEN ReplyInTry(Reply("amount_error", << >>, << >>, "", FALSE),
                                      0, << >>, f)
                      ELSE RecordSales(sales_name, sales_amount.value, now, f)

\* Variant of handle_message without the check of main.py:107-110
handle_message_unchecked(u, now, f) ==
    IF u.shape = "channel_post" THEN AttributeError
    ELSE ParseAndRecord(u, now, f)

\* Variant of handle_message as a stateful check-in flow: a sender who has
\* not sent /checkin is sent the prompt instead
handle_message_session(u, now, f) ==
    IF u.shape = "channel_post" THEN AttributeError
    ELSE IF u.user \notin authorized_sales_ids
         THEN IF u.shape # "message" THEN AttributeError
              ELSE ReplyUnguarded("refusal_message", f)
         ELSE IF u.user \notin checkedIn
              THEN ReplyUnguarded("checkin_prompt", f)
              ELSE ParseAndRecord(u, now, f)

\* main.py:105-145
handle_message(u, now, f) ==
    IF u.shape = "channel_post" THEN AttributeError            \* line 106
    ELSE IF u.user \notin authorized_sales_ids
         THEN IF u.shape # "message" THEN AttributeError       \* line 108
              ELSE ReplyUnguarded("refusal_message", f)
         ELSE ParseAndRecord(u, now, f)

\* no handler's filter matches: nothing runs
NoHandler == Outcome(NoReply, 0, FALSE, << >>, "none")

\* application.process_update with the handlers of main.py:163-165
Dispatch(u, now, f) ==
    CASE u.kind = "start" -> start_command(u, f)
      [] u.kind = "checkin" -> checkin_command(u, f)
      [] u.kind = "text" -> handle_message(u, now, f)
      [] OTHER -> NoHandler

----------------------------------------------------------------------------
(* The HTTP endpoint, main.py:151-160 *)

OkResponse == [ status |-> 200, body |-> "ok", message |-> "" ]
ErrorResponse(e) == [ status |-> 500, body |-> "error", message |-> e ]

\* the exception, if any, that Update.de_json(request.get_json(...)) or
\* application.process_update raises into the try block of main.py:154-160
Raised(u, out, f) ==
    IF u.kind = "malformed" THEN "BadRequest"
    ELSE IF f.dispatch THEN (IF out.escaped # "none" THEN out.escaped ELSE "DispatchError")
    ELSE "none"

\* Variant of telegram_webhook whose except clause acknowledges the update
telegram_webhook_always_ok(u, out, f) == << OkResponse >>

\* main.py:154-160
telegram_webhook(u, out, f) ==
    IF Raised(u, out, f) # "none"
    THEN << ErrorResponse(Raised(u, out, f)) >>
    ELSE << OkResponse >>

\* update.effective_user is None
NoUser == 0

NoRequest ==
    [ update |-> [ kind |-> "none", shape |-> "message", user |-> NoUser, text |-> << >> ],
      out |-> NoHandler, raised |-> "none", responses |-> << >>, at |-> 0 ]

\* one POST /telegram, from the request to the response
Serve(u, f) ==
    /\ pc = "serving"
    /\ LET now == handled + 1
           out == IF u.kind = "malformed" THEN NoHandler ELSE Dispatch(u, now, f)
       IN  /\ sheet' = sheet \o out.rows
           /\ appendedBy' = appendedBy \o [ i \in 1..Len(out.rows) |-> u.user ]
           /\ last' = [ update |-> u, out |-> out, raised |-> Raised(u, out, f),
                        responses |-> telegram_webhook(u, out, f), at |-> now ]
    /\ handled' = handled + 1
    /\ appendFailedBefore' = (appendFailedBefore \/ last.out.appendRaised)
    /\ UNCHANGED << pc, TOKEN, WEBHOOK_URL, worksheet, authorized_sales_ids_str,
                    authorized_sales_ids >>

----------------------------------------------------------------------------
(* Inputs *)

\* all strings over alphabet A of length at most n
StringsOf(A, n) == UNION { [1..k -> A] : k \in 0..n }

\* AUTHORIZED_SALES as the deployment may set it: absent, "", "1, 2, abc, 3",
\* "2,2", "1,<U+00B2>"
AuthorizedEnvs ==
    { EnvUnset, EnvSet(<< >>),
      EnvSet(<< "1", ",", " ", "2", ",", " ", "a", "b", "c", ",", " ", "3" >>),
      EnvSet(<< "2", ",", "2" >>),
      EnvSet(<< "1", ",", "sup2" >>) }

AuthAlphabet == { "1", "2", "a", " ", ",", "sup2" }

BotEnvs == { Absent, "", "set" }

SenderIds == { 1, 2 }

\* "ab, 1000000", "ab", "a, b, 100", "ab, abc", " a ,-1500 "
SampleTexts ==
    { << "a", "b", ",", " ", "1", "0", "0", "0", "0", "0", "0" >>,
      << "a", "b" >>,
      << "a", ",", " ", "b", ",", " ", "1", "0", "0" >>,
      << "a", "b", ",", " ", "a", "b", "c" >>,
      << " ", "a", " ", ",", "-", "1", "5", "0", "0", " " >> }

TextAlphabet == { "a", " ", ",", "1", "-", "+", "_" }

Update(kind, shape, user, text) ==
    [ kind |-> kind, shape |-> shape,
      user |-> IF shape = "channel_post" \/ kind = "malformed" THEN NoUser ELSE user,
      text |-> text ]

\* commands and other content in every shape, every sample text as a
\* message, one sample text as an edited message and as a channel post
Updates ==
    { Update(k, sh, us, << >>) :
        k \in {"start", "checkin"},
        sh \in {"message", "edited_message", "channel_post"}, us \in SenderIds }
    \cup { Update("text", "message", us, t) : us \in SenderIds, t \in SampleTexts }
    \cup { Update("text", sh, us, << "a", "b" >>) :
             sh \in {"edited_message", "channel_post"}, us \in SenderIds }
    \cup { Update(k, "message", us, << >>) : k \in {"other", "malformed"}, us \in SenderIds }

\* the second reply_text call exists only after the first one raised
Faults ==
    [ append : BOOLEAN,
      reply : { << FALSE, FALSE >>, << TRUE, FALSE >>, << TRUE, TRUE >> },
      dispatch : BOOLEAN ]

\* the outside's choices that a request of this kind can meet: only the
\* free-text handler calls append_row or replies twice, and no handler runs
\* for other content
FaultsFor(u) ==
    CASE u.kind = "text" -> Faults
      [] u.kind \in {"start", "checkin"} ->
             { f \in Faults : ~f.append /\ ~f.reply[2] }
      [] OTHER -> { f \in Faults : ~f.append /\ ~f.reply[1] }

----------------------------------------------------------------------------
(* The system: start-up, then webhook requests one after the other.  A     *)
(* global name that is not bound yet holds Unbound, or the empty string or *)
(* set where the name is later bound to a string or a set.                 *)

Init ==
    /\ pc = "creds"
    /\ TOKEN = Unbound
    /\ WEBHOOK_URL = Unbound
    /\ worksheet = Unbound
    /\ authorized_sales_ids_str = << >>
    /\ authorized_sales_ids = {}
    /\ sheet = << >>
    /\ appendedBy = << >>
    /\ handled = 0
    /\ last = NoRequest
    /\ appendFailedBefore = FALSE
    /\ checkedIn = {}
    /\ observed = {}

TelegramWebhook(u, f) ==
    /\ handled < MaxUpdates
    /\ Serve(u, f)
    /\ UNCHANGED << checkedIn, observed >>

Next ==
    \/ \E e \in CredentialEnvs : LoadCredentials(e)
    \/ \E v \in AuthorizedEnvs : LoadAuthorized(v)
    \/ \E t \in BotEnvs, w \in BotEnvs : ReadBotConfig(t, w)
    \/ CheckToken
    \/ CheckWebhookUrl
    \/ \E raises \in BOOLEAN : BuildApplication(raises)
    \/ RegisterHandlers
    \/ /\ pc = "serving" /\ handled < MaxUpdates
       /\ \E u \in Updates : \E f \in FaultsFor(u) : TelegramWebhook(u, f)

Spec == Init /\ [][Next]_vars

----------------------------------------------------------------------------
(* The free-text handler on every short text: one request served by a     *)
(* process that started with AUTHORIZED_SALES = "1, 2, abc, 3"            *)

Served(ws, str) ==
    /\ pc = "serving"
    /\ TOKEN = "set"
    /\ WEBHOOK_URL = "set"
    /\ worksheet = ws
    /\ authorized_sales_ids_str = str
    /\ authorized_sales_ids = ParseAuthorized(str).ids
    /\ sheet = << >>
    /\ appendedBy = << >>
    /\ handled = 0
    /\ last = NoRequest
    /\ appendFailedBefore = FALSE
    /\ checkedIn = {}
    /\ observed = {}

InitMsg ==
    \E ws \in {None, "ws"} :
        Served(ws, << "1", ",", " ", "2", ",", " ", "a", "b", "c", ",", " ", "3" >>)

MsgUpdates ==
    { Update("text", "message", us, t) :
        us \in {1, 7}, t \in StringsOf(TextAlphabet, MaxLen) \cup SampleTexts }

MsgFaults == { f \in Faults : ~f.reply[1] /\ ~f.dispatch }

TextMessage(u, f) ==
    /\ handled < 1
    /\ Serve(u, f)
    /\ UNCHANGED << checkedIn, observed >>

NextMsg ==
    /\ pc = "serving" /\ handled < 1
    /\ \E u \in MsgUpdates, f \in MsgFaults : TextMessage(u, f)

SpecMsg == InitMsg /\ [][NextMsg]_vars

----------------------------------------------------------------------------
(* The Authorization Set on every short AUTHORIZED_SALES string *)

InitAuth ==
    /\ pc = "auth"
    /\ TOKEN = Unbound
    /\ WEBHOOK_URL = Unbound
    /\ worksheet \in {None, "ws"}
    /\ authorized_sales_ids_str = << >>
    /\ authorized_sales_ids = {}
    /\ sheet = << >>
    /\ appendedBy = << >>
    /\ handled = 0
    /\ last = NoRequest
    /\ appendFailedBefore = FALSE
    /\ checkedIn = {}
    /\ observed = {}

NextAuth ==
    /\ pc = "auth"
    /\ \E v \in {EnvUnset} \cup { EnvSet(str) : str \in StringsOf(AuthAlphabet, MaxAuthLen) } :
           LoadAuthorized(v)

SpecAuth == InitAuth /\ [][NextAuth]_vars

----------------------------------------------------------------------------
(* Histories: commands and free text in any order, every free-text        *)
(* request observed with its input and its outcome                        *)

InitHist ==
    \E ws \in {None, "ws"} : Served(ws, << "1" >>)

HistUpdates ==
    { Update(k, "message", us, << >>) : k \in {"start", "checkin"}, us \in {1, 2} }
    \cup { Update("text", "message", us, t) :
             us \in {1, 2},
             t \in { << "a", ",", "1", "0", "0", "0" >>, << "a", "b" >> } }

HistFaults == { f \in Faults : ~f.reply[1] /\ ~f.dispatch }

\* what the sender of a free-text update sees and whether a row was written
Observation(u, f, out) ==
    [ user |-> u.user, text |-> u.text, append |-> f.append,
      afterCheckin |-> u.user \in checkedIn,
      replies |-> [ i \in 1..Len(out.replies) |-> out.replies[i].kind ],
      appended |-> Len(out.rows),
      ids |-> authorized_sales_ids, handle |-> worksheet ]

ObservedWebhook(u, f) ==
    /\ handled < MaxHist
    /\ Serve(u, f)
    /\ checkedIn' = IF u.kind = "checkin" THEN checkedIn \cup {u.user} ELSE checkedIn
    /\ observed' = IF u.kind = "text"
                   THEN observed \cup { Observation(u, f, last'.out) }
                   ELSE observed

NextHist ==
    /\ pc = "serving" /\ handled < MaxHist
    /\ \E u \in HistUpdates : \E f \in HistFaults \cap FaultsFor(u) :
           ObservedWebhook(u, f)

SpecHist == InitHist /\ [][NextHist]_vars

----------------------------------------------------------------------------
(* Properties *)

LastServed == last.update.kind # "none"

\* the last request was a free-text message (update.message is set)
LastIsText == last.update.kind = "text" /\ last.update.shape = "message"

LastAuthorizedText == LastIsText /\ last.update.user \in authorized_sales_ids

CommaCount(t) == Cardinality({ i \in 1..Len(t) : t[i] = "," })

\* the text before and after the only comma of t
BeforeComma(t) == SubSeq(t, 1, (CHOOSE i \in 1..Len(t) : t[i] = ",") - 1)
AfterComma(t) == SubSeq(t, (CHOOSE i \in 1..Len(t) : t[i] = ",") + 1, Len(t))

\* "<name>, <amount>" with <amount> an integer
WellFormed(t) == CommaCount(t) = 1 /\ ~int(AfterComma(t)).raised

ReplyKinds(out) == [ i \in 1..Len(out.replies) |-> out.replies[i].kind ]

Count(kinds, k) == Cardinality({ i \in 1..Len(kinds) : kinds[i] = k })

NotComma(c) == c # ","

\* str writes n in decimal with a comma before every group of three digits
ThousandsSeparated(str, n) ==
    LET neg == n < 0
        body == IF str # << >> /\ Head(str) = "-" THEN Tail(str) ELSE str
        L == Len(body)
    IN  /\ neg <=> (str # << >> /\ Head(str) = "-")
        /\ L > 0
        /\ \A i \in 1..L : IF (L - i + 1) % 4 = 0 THEN body[i] = ","
                           ELSE body[i] \in DecimalDigit
        /\ body[1] # "0" \/ L = 1
        /\ DigitsValue(SelectSeq(body, NotComma)) = IF neg THEN 0 - n ELSE n

\* C1: every row of the worksheet was appended for an update whose sender is
\* in the Authorization Set, and a request whose sender is outside the set
\* (or has no sender) makes no append_row call and writes no row, whatever
\* its kind and content.
C1_OnlyAuthorizedAppend ==
    /\ Len(appendedBy) = Len(sheet)
    /\ \A i \in 1..Len(appendedBy) : appendedBy[i] \in authorized_sales_ids
    /\ (LastServed /\ (last.update.shape = "channel_post"
                       \/ last.update.user \notin authorized_sales_ids))
         => (last.out.rows = << >> /\ last.out.appendCalls = 0)
    /\ (LastServed /\ last.update.kind # "text")
         => (last.out.rows = << >> /\ last.out.appendCalls = 0)

\* a row exists, and the last request was a well-formed text from a sender
\* outside the set while the worksheet handle was set
C1_Witness ==
    /\ Len(sheet) >= 1
    /\ LastIsText /\ last.update.user \notin authorized_sales_ids
    /\ WellFormed(last.update.text)
    /\ worksheet = "ws"
    /\ ReplyKinds(last.out) = << "refusal_message" >>

\* C2 as stated: every well-formed text from an authorized sender gives
\* exactly one append and exactly one confirmation reply.
C2_Original ==
    (LastAuthorizedText /\ WellFormed(last.update.text))
      => /\ last.out.appendCalls = 1
         /\ Len(last.out.rows) = 1
         /\ Count(ReplyKinds(last.out), "confirmation") = 1

\* C2 amended: when the worksheet handle is set and append_row does not
\* raise, a well-formed text from an authorized sender gives exactly one
\* append_row call writing [timestamp, trimmed name, integer amount] and
\* exactly one confirmation reply, which carries the trimmed name and the
\* amount written with thousands separators.
C2_AppendAndConfirm ==
    (LastAuthorizedText /\ WellFormed(last.update.text)
       /\ worksheet # None /\ ~last.out.appendRaised)
      => LET name == strip(BeforeComma(last.update.text))
             amount == int(AfterComma(last.update.text)).value
         IN  /\ last.out.appendCalls = 1
             /\ last.out.rows = << << Timestamp(last.at), name, amount >> >>
             /\ sheet # << >> /\ sheet[Len(sheet)] = last.out.rows[1]
             /\ Count(ReplyKinds(last.out), "confirmation") = 1
             /\ last.out.replies[1].kind = "confirmation"
             /\ last.out.replies[1].name = name
             /\ ThousandsSeparated(last.out.replies[1].amount, amount)

\* amount 1111 recorded and confirmed as "1,111"
C2_Witness ==
    /\ LastAuthorizedText /\ WellFormed(last.update.text)
    /\ Len(last.out.rows) = 1 /\ last.out.rows[1][3] = 1111
    /\ last.out.replies[1].kind = "confirmation"
    /\ last.out.replies[1].amount = << "1", ",", "1", "1", "1" >>

\* C3: with the worksheet handle unset, every well-formed text from an
\* authorized sender is answered with the connectivity error and append_row
\* is not called; no row is ever written.
C3_UnsetHandle ==
    (pc = "serving" /\ worksheet = None)
      => /\ sheet = << >>
         /\ (LastAuthorizedText /\ WellFormed(last.update.text))
              => /\ last.out.replies # << >>
                 /\ last.out.replies[1].kind = "connectivity_error"
                 /\ last.out.appendCalls = 0
                 /\ last.out.rows = << >>

\* C3: once the handle is unset it stays unset.
C3_StaysUnset == [][worksheet = None => worksheet' = None]_vars

\* C3: both parts together.
C3_DegradedMode == [](C3_UnsetHandle) /\ C3_StaysUnset

\* the second request of a process without a handle, answered with the
\* connectivity error
C3_Witness ==
    /\ worksheet = None /\ handled = 2
    /\ LastAuthorizedText /\ WellFormed(last.update.text)
    /\ ReplyKinds(last.out) = << "connectivity_error" >>

\* C4: a text from an authorized sender with no comma or more than one comma
\* is answered with the format error; append_row is not called.
C4_FormatError ==
    (LastAuthorizedText /\ CommaCount(last.update.text) # 1)
      => /\ last.out.replies # << >>
         /\ last.out.replies[1].kind = "format_error"
         /\ last.out.appendCalls = 0
         /\ last.out.rows = << >>

\* two commas, the last field an integer: "a,a,1"
C4_Witness ==
    /\ LastAuthorizedText
    /\ last.update.text = << "a", ",", "a", ",", "1" >>
    /\ worksheet = "ws"
    /\ ReplyKinds(last.out) = << "format_error" >>

\* a minus sign and decimal digits
NegativeLiteral(s) ==
    /\ Len(s) >= 2 /\ s[1] = "-"
    /\ \A i \in 2..Len(s) : s[i] \in DecimalDigit

\* C5: a text from an authorized sender with exactly one comma whose second
\* part is not an integer is answered with the amount error, with no append,
\* whether or not the worksheet handle is set; a second part that is a
\* negative integer is not answered with the amount error, and the row
\* written for it carries the negative amount.
C5_AmountError ==
    (LastAuthorizedText /\ CommaCount(last.update.text) = 1)
      => LET second == strip(AfterComma(last.update.text))
         IN  /\ int(second).raised
                  => /\ last.out.replies # << >>
                     /\ last.out.replies[1].kind = "amount_error"
                     /\ last.out.appendCalls = 0
                     /\ last.out.rows = << >>
             /\ NegativeLiteral(second)
                  => /\ Count(ReplyKinds(last.out), "amount_error") = 0
                     /\ \A i \in 1..Len(last.out.rows) :
                            last.out.rows[i][3] = 0 - DigitsValue(Tail(second))
                     /\ (worksheet # None /\ ~last.out.appendRaised)
                          => Len(last.out.rows) = 1

\* the amount error while the worksheet handle is unset
C5_Witness ==
    /\ LastAuthorizedText /\ CommaCount(last.update.text) = 1
    /\ int(AfterComma(last.update.text)).raised
    /\ worksheet = None
    /\ ReplyKinds(last.out) = << "amount_error" >>

\* C6: when append_row raises, the handler's only reply call is the
\* processing error carrying the failure's description, there is no
\* confirmation, no row is written, the append failure neither leaves the
\* handler nor reaches the endpoint, and the process keeps serving: a later
\* well-formed text whose append succeeds is recorded and confirmed.
C6_AppendFailureCaught ==
    /\ (LastServed /\ last.out.appendRaised)
         => /\ ReplyKinds(last.out) = << "processing_error" >>
            /\ last.out.replies[1].detail = "AppendError"
            /\ last.out.rows = << >>
            /\ last.out.escaped # "AppendError"
            /\ last.raised # "AppendError"
            /\ pc = "serving"
    /\ (appendFailedBefore /\ LastServed)
         => /\ pc = "serving"
            /\ (LastAuthorizedText /\ WellFormed(last.update.text)
                  /\ worksheet # None /\ ~last.out.appendRaised)
                 => /\ Len(last.out.rows) = 1
                    /\ last.out.replies[1].kind = "confirmation"

\* an append failure, then a request that is recorded and confirmed
C6_Witness ==
    /\ appendFailedBefore
    /\ LastAuthorizedText
    /\ Len(last.out.rows) = 1
    /\ ReplyKinds(last.out) = << "confirmation" >>
    /\ last.responses = << OkResponse >>

\* both variables are in the environment (os.environ.get does not give None)
BothPresent == TOKEN \notin {None, Unbound} /\ WEBHOOK_URL \notin {None, Unbound}

StartupOver == pc \in {"serving", "exited", "crashed"}

\* C7 as stated: start-up ends in the serving state exactly when both
\* variables are present.
C7_Original == StartupOver => (pc = "serving" <=> BothPresent)

\* C7 amended: start-up reaches the serving state only with both
\* TELEGRAM_BOT_TOKEN and WEBHOOK_URL set to non-empty values; the process
\* exits exactly for a missing or empty token or URL, before any request is
\* served; and every way start-up ends comes after the credential loader
\* has finished, with the handle set or unset.
C7_Startup ==
    /\ pc \in {"build", "routes", "serving"}
         => (Truthy(TOKEN) /\ Truthy(WEBHOOK_URL) /\ BothPresent)
    /\ pc = "exited"
         => /\ ~Truthy(TOKEN) \/ ~Truthy(WEBHOOK_URL)
            /\ handled = 0 /\ sheet = << >>
    /\ (pc \in {"webhook"} => Truthy(TOKEN))
    /\ StartupOver => worksheet \in {None, "ws"}
    /\ pc # "serving" => handled = 0

\* serving with the handle left unset by the credential loader
C7_Witness == pc = "serving" /\ worksheet = None /\ handled = 1

\* the Authorization Set the claim describes: the integers of the tokens
\* that, trimmed, are non-empty strings of decimal digits
NumericTokens(str) ==
    LET toks == split(str)
    IN  { strip(toks[i]) : i \in { k \in 1..Len(toks) :
            /\ strip(toks[k]) # << >>
            /\ \A j \in 1..Len(strip(toks[k])) : strip(toks[k])[j] \in DecimalDigit } }

ExpectedIds(str) == { DigitsValue(t) : t \in NumericTokens(str) }

\* main.py:55-59 has run and nothing after it has
AuthorizedRead == pc \notin {"creds", "auth"} /\ TOKEN = Unbound

\* C8: once the configuration string has been read, the Authorization Set is
\* built and equals the set of integers of the purely numeric tokens.
C8_AuthorizationSet ==
    AuthorizedRead
      => /\ pc # "crashed"
         /\ authorized_sales_ids = ExpectedIds(authorized_sales_ids_str)

\* C8 restricted: for a string in which no token is a digit string that
\* int() rejects, the set is built as the claim says.
C8_DecimalOnly ==
    (AuthorizedRead
       /\ \A i \in 1..Len(authorized_sales_ids_str) :
              authorized_sales_ids_str[i] # "sup2")
      => /\ pc # "crashed"
         /\ authorized_sales_ids = ExpectedIds(authorized_sales_ids_str)

\* C9: every request served has exactly one response: the error body with
\* status 500 and the exception's text when deserialization or dispatch
\* raised, {"status": "ok"} with status 200 otherwise; a body that does not
\* deserialize is answered 500 and reaches no handler.
C9_OneResponse ==
    LastServed
      => /\ Len(last.responses) = 1
         /\ last.raised # "none"
              => last.responses[1] =
                   [ status |-> 500, body |-> "error", message |-> last.raised ]
         /\ last.raised = "none"
              => last.responses[1] = [ status |-> 200, body |-> "ok", message |-> "" ]
         /\ last.update.kind = "malformed"
              => (last.responses[1].status = 500 /\ last.out.replies = << >>)

\* a handler's exception that the dispatcher raised on to the endpoint
C9_Witness ==
    /\ LastIsText
    /\ last.out.escaped = "TelegramError"
    /\ last.raised = "TelegramError"
    /\ last.responses = << ErrorResponse("TelegramError") >>

\* C10: two free-text requests with the same sender, text and append_row
\* result have the same replies and write the same number of rows, whatever
\* was served between them and whether or not the sender had sent /checkin;
\* and every request found the Authorization Set and the worksheet handle
\* as they are now.
C10_HistoryIndependent ==
    /\ \A p, q \in observed :
         (p.user = q.user /\ p.text = q.text /\ p.append = q.append)
           => (p.replies = q.replies /\ p.appended = q.appended)
    /\ \A p \in observed :
         p.ids = authorized_sales_ids /\ p.handle = worksheet

\* the same text recorded for the same sender before and after /checkin
C10_Witness ==
    \E p, q \in observed :
        /\ p.user = q.user /\ p.text = q.text /\ p.append = q.append
        /\ ~p.afterCheckin /\ q.afterCheckin
        /\ p.appended = 1 /\ q.appended = 1
        /\ p.replies = << "confirmation" >>

============================================================================
